---- MODULE Spec2Model ----
(***************************************************************************)
(* Timing model of the magnetisation-preparation builders of the          *)
(* sequences package: add_t1prep (preparations/t1prep.py),                 *)
(* add_composite_refocusing_block and add_t2prep (preparations/t2prep.py), *)
(* the module-level sys_defaults record (utils/system_defaults.py), and    *)
(* the script main (scripts/t1_inv_rec_gre_single_line.py), which builds   *)
(* an inversion-recovery gradient-echo sequence with add_t1prep.           *)
(*                                                                         *)
(* Times are exact: one tick is 10 microseconds and every time is held in  *)
(* eighths of a tick (T(n) is n ticks), so that the divisions by 2, 4 and  *)
(* 8 of the code are exact.  Floating-point rounding is not modelled.      *)
(*                                                                         *)
(* Hardware-limit records (pp.Opts) are Python objects passed by           *)
(* reference: opts maps a reference to the record it points to, so that an *)
(* assignment through an alias is visible to every holder of the           *)
(* reference.                                                              *)
(***************************************************************************)
EXTENDS Integers, Sequences, FiniteSets, TLC

VARIABLES
    seq,    \* the caller's pp.Sequence: its blocks in order, or NoSeq
    opts,   \* heap of pp.Opts objects: "caller" and "sys_defaults"
    last    \* the last builder call: arguments, outcome, state before it

vars == <<seq, opts, last>>

\* Python's None, for an unset rf_dead_time and an omitted argument.
None == -1

\* n ticks in the model's time unit (eighths of a tick).
T(n) == 8 * n

\* The caller holds no sequence object yet (it passes seq=None).
NoSeq == <<[type |-> "no sequence"]>>

\* The caller passes system=None.
NoSystem == "None"

-----------------------------------------------------------------------------
(* Bounds of the explored inputs. *)

\* A builder is called on a sequence that holds at most this many blocks.
MaxPriorBlocks == 1
\* duration_180 ranges over 1..MaxDuration180 ticks.
MaxDuration180 == 2
\* rf_duration of the inversion pulse ranges over 1..MaxRfDuration ticks.
MaxRfDuration == 2
\* inversion_time ranges over 0..MaxInversionTime ticks.
MaxInversionTime == 6

Durations180 == {T(n) : n \in 1..MaxDuration180}
RfDurations == {T(n) : n \in 1..MaxRfDuration}
InversionTimes == {T(n) : n \in 0..MaxInversionTime}
\* Echo times (in ticks) below, at and above the feasible minimum of the
\* explored duration_180 and rf_dead_time values.
EchoTimes == {T(n) : n \in {8, 28, 30, 31, 174, 200}}
\* main is run with 1..MaxPhaseEncoding phase-encoding steps.
MaxPhaseEncoding == 2

\* Arguments of main: lists of inversion times (25 ms; one that leaves no
\* inversion delay with the default ringdown time; one too short for the
\* inversion pulse and its spoiler), numbers of readout samples, echo times
\* (None, and values below, at, half a tick above and far above the explored
\* minimum echo times) and repetition times (far above, at, half a tick
\* below and a tick or more below the explored repetition durations).
InversionTimeLists == {<<T(2500)>>, <<T(1475), T(2500)>>, <<T(2500), T(1000)>>}
PhaseEncodingSteps == 1..MaxPhaseEncoding
ReadoutSamples == {2, 3}
MainEchoTimes == {None, T(150), T(194), T(194) + 4, T(300)}
RepetitionTimes == {T(5000), T(3393), T(3393) - 4, T(3392), T(3000)}

\* <<add_spoiler, spoiler_ramp_time, spoiler_flat_time>>
Spoilers == {<<FALSE, T(1), T(1)>>, <<TRUE, T(1), 0>>, <<TRUE, T(1) \div 2, T(2)>>}

-----------------------------------------------------------------------------
(* Hardware limits. *)

Opts(max_grad, max_slew, rf_ringdown_time, rf_dead_time, adc_dead_time) ==
    [max_grad |-> max_grad, max_slew |-> max_slew,
     rf_ringdown_time |-> rf_ringdown_time, rf_dead_time |-> rf_dead_time,
     adc_dead_time |-> adc_dead_time]

\* utils/system_defaults.py: 30 mT/m, 120 T/m/s, 30 us, 100 us, 10 us.
\* (sys_defaults_no_ringdown: the ringdown time left at zero.)
sys_defaults_no_ringdown == Opts(30, 120, 0, T(10), T(1))
sys_defaults == Opts(30, 120, T(3), T(10), T(1))

\* The records a caller may hold: the conftest fixture (equal to the
\* defaults), and records with other dead and ringdown times, the dead time
\* possibly unset (the tests assign None to the attribute).
CallerSystems ==
    {Opts(30, 120, rd, dt, T(1)) : rd \in {0, T(2), T(3)}, dt \in {None, T(1), T(10)}}

GlobalRefs == {"caller", "sys_defaults"}

\* copy.deepcopy(system): a new object, bound to the reference fresh, with
\* the fields of the object ref points to; returns the heap and the
\* reference of the copy.
\* (deepcopy_alias: the copy left out, the reference itself is used.)
deepcopy_alias(h, ref, fresh) == [heap |-> h, ref |-> ref]
deepcopy(h, ref, fresh) ==
    [heap |-> [r \in (DOMAIN h) \cup {fresh} |-> IF r = fresh THEN h[ref] ELSE h[r]],
     ref |-> fresh]

\* system.rf_ringdown_time = value
\* (ringdown_kept: the assignment left out.)
ringdown_kept(h, ref, value) == h
set_rf_ringdown_time(h, ref, value) ==
    [h EXCEPT ![ref].rf_ringdown_time = value]

\* system.rf_dead_time is None
\* (dead_time_check_skipped: the test left out.)
dead_time_check_skipped(system) == FALSE
rf_dead_time_is_None(system) == system.rf_dead_time = None

-----------------------------------------------------------------------------
(* Events and blocks of the pulse-sequence library, as far as the builders *)
(* use them: an event's timing fields and the duration of its block.       *)

Max(a, b) == IF a >= b THEN a ELSE b

Event(type, use, flip_angle, phase_offset, delay, shape_dur, ringdown_time, rise_time, flat_time, fall_time, amplitude) ==
    [type |-> type, use |-> use, flip_angle |-> flip_angle,
     phase_offset |-> phase_offset, delay |-> delay, shape_dur |-> shape_dur,
     ringdown_time |-> ringdown_time, rise_time |-> rise_time,
     flat_time |-> flat_time, fall_time |-> fall_time, amplitude |-> amplitude]

\* pp.make_block_pulse(flip_angle, delay, duration, phase_offset, system, use):
\* the pulse starts after max(delay, dead time) and carries the system's
\* ringdown time.  Angles are in degrees.
make_block_pulse(flip_angle, delay, duration, phase_offset, system, use) ==
    Event("rf", use, flip_angle, phase_offset, Max(delay, system.rf_dead_time),
          duration, system.rf_ringdown_time, 0, 0, 0, 0)

\* pp.make_adiabatic_pulse(pulse_type='hypsec', delay, duration, system, use)
make_adiabatic_pulse(delay, duration, system, use) ==
    Event("rf", use, 180, 0, Max(delay, system.rf_dead_time),
          duration, system.rf_ringdown_time, 0, 0, 0, 0)

\* pp.make_trapezoid(channel='z', amplitude, flat_time, rise_time, system):
\* the fall time defaults to the rise time.
make_trapezoid(amplitude, flat_time, rise_time, system) ==
    Event("trap", "", 0, 0, 0, 0, 0, rise_time, flat_time, rise_time, amplitude)

\* pp.make_delay(d)
make_delay(d) ==
    Event("delay", "", 0, 0, d, 0, 0, 0, 0, 0, 0)

\* pp.calc_duration(event): the duration of the block that holds the event.
\* A block lasts as long as the longest of its events; a label takes no time.
RECURSIVE calc_duration(_)
calc_duration(e) ==
    CASE e.type = "rf" -> e.delay + e.shape_dur + e.ringdown_time
      [] e.type = "trap" -> e.delay + e.rise_time + e.flat_time + e.fall_time
      [] e.type = "adc" -> e.delay + e.num_samples * e.dwell + e.dead_time
      [] e.type = "label" -> 0
      [] e.type = "block" ->
           LET d == {calc_duration(e.events[i]) : i \in 1..Len(e.events)}
           IN  CHOOSE m \in d : \A x \in d : x <= m
      [] OTHER -> e.delay

\* seq.add_block(event)
add_block(s, e) == Append(s, e)

\* sum(seq.block_durations.values())
RECURSIVE duration_of_first(_, _)
duration_of_first(s, n) ==
    IF n = 0 THEN 0 ELSE duration_of_first(s, n - 1) + calc_duration(s[n])
total_duration(s) == duration_of_first(s, Len(s))

\* sum(seq.block_durations.values()) - time_start
\* (whole_sequence_duration: time_start not subtracted.)
whole_sequence_duration(s, time_start) == total_duration(s)
block_duration_since(s, time_start) == total_duration(s) - time_start

\* 0.4 * system.max_grad
spoiler_amplitude(system) == (4 * system.max_grad) \div 10

\* The result of a builder call: the sequence object it worked on, the heap
\* it leaves, the error it raised ("" if none) and its return values.
Returned(s, h, block_duration, time_to_midpoint) ==
    [seq |-> s, heap |-> h, raised |-> "",
     block_duration |-> block_duration, time_to_midpoint |-> time_to_midpoint]
Raised(s, h, message) ==
    [seq |-> s, heap |-> h, raised |-> message,
     block_duration |-> None, time_to_midpoint |-> None]

-----------------------------------------------------------------------------
(* preparations/t1prep.py *)

\* total_spoil_time of add_t1prep
\* (total_spoil_time_one_ramp: one ramp counted instead of two.)
total_spoil_time_one_ramp(add_spoiler, spoiler_ramp_time, spoiler_flat_time) ==
    IF add_spoiler THEN spoiler_ramp_time + spoiler_flat_time ELSE 0
total_spoil_time(add_spoiler, spoiler_ramp_time, spoiler_flat_time) ==
    IF add_spoiler THEN 2 * spoiler_ramp_time + spoiler_flat_time ELSE 0

\* tau of add_t1prep, the inversion time delay
\* (tau_without_ringdown: the ringdown time not subtracted.)
tau_without_ringdown(inversion_time, rf_duration, system, spoil_time) ==
    inversion_time - rf_duration \div 2 - spoil_time
tau_of(inversion_time, rf_duration, system, spoil_time) ==
    inversion_time - rf_duration \div 2 - system.rf_ringdown_time - spoil_time

\* if tau > 0: the delay block is appended
\* (delay_always: the delay appended whatever tau.)
delay_always(tau) == TRUE
delay_needed(tau) == tau > 0

\* add_t1prep(seq, system, inversion_time, rf_duration, add_spoiler,
\*            spoiler_ramp_time, spoiler_flat_time); seq_arg is the blocks of
\* the sequence passed in, or None; system_arg a reference, or None.
add_t1prep(seq_arg, h, system_arg, inversion_time, rf_duration, add_spoiler, spoiler_ramp_time, spoiler_flat_time) ==
    LET system == IF system_arg = NoSystem THEN "sys_defaults" ELSE system_arg
        s0 == IF seq_arg = NoSeq THEN <<>> ELSE seq_arg
        time_start == total_duration(s0)
        tau == tau_of(inversion_time, rf_duration, h[system],
                      total_spoil_time(add_spoiler, spoiler_ramp_time,
                                       spoiler_flat_time))
        rf == make_adiabatic_pulse(h[system].rf_dead_time, rf_duration,
                                   h[system], "inversion")
        s1 == add_block(s0, rf)
        gz_spoil == make_trapezoid(spoiler_amplitude(h[system]), spoiler_flat_time,
                                   spoiler_ramp_time, h[system])
        s2 == IF add_spoiler THEN add_block(s1, gz_spoil) ELSE s1
        s3 == IF delay_needed(tau) THEN add_block(s2, make_delay(tau)) ELSE s2
    IN  IF tau < 0
        THEN Raised(s0, h, "Inversion time too short")
        ELSE Returned(s3, h, block_duration_since(s3, time_start), None)

-----------------------------------------------------------------------------
(* preparations/t2prep.py *)

\* The three pulses of the composite block: 90x, +/-180y, 90x.
\* (refocusing_pulses_equal: all three pulses of duration duration_180.)
refocusing_pulses_equal(system, duration_180, negative_amp) ==
    [i \in 1..3 |->
        make_block_pulse(<<90, 180, 90>>[i], system.rf_dead_time, duration_180,
                         IF negative_amp THEN <<180, 270, 180>>[i]
                         ELSE <<0, 90, 0>>[i], system, "preparation")]
refocusing_pulses(system, duration_180, negative_amp) ==
    LET flip_angles == <<90, 180, 90>>
        durations == <<duration_180 \div 2, duration_180, duration_180 \div 2>>
        phases == IF ~negative_amp THEN <<0, 90, 0>> ELSE <<180, 270, 180>>
    IN  [i \in 1..3 |->
            make_block_pulse(flip_angles[i], system.rf_dead_time, durations[i],
                             phases[i], system, "preparation")]

\* add_composite_refocusing_block(seq, system, duration_180, negative_amp)
add_composite_refocusing_block(s, h, system_arg, duration_180, negative_amp) ==
    IF rf_dead_time_is_None(h[system_arg])
    THEN Raised(s, h, "rf_dead_time must be provided")
    ELSE
    LET cp == deepcopy(h, system_arg, "refocusing copy")
        h1 == set_rf_ringdown_time(cp.heap, cp.ref, 0)
        system == h1[cp.ref]
        time_start == total_duration(s)
        pulses == refocusing_pulses(system, duration_180, negative_amp)
        s1 == add_block(add_block(add_block(s, pulses[1]), pulses[2]), pulses[3])
        block_duration == block_duration_since(s1, time_start)
        time_to_midpoint == system.rf_dead_time + duration_180 \div 2
                            + system.rf_dead_time + duration_180 \div 2
    IN  Returned(s1, h1, block_duration, time_to_midpoint)

\* The delays of add_t2prep: tau1 before the first composite block, tau2
\* between composite blocks, tau3 before the tip-up pulse.
\* (tau1_one_dead_time, tau2_to_block_start, tau3_half_of_180: variants with
\* one dead time, the second midpoint term, or the factor 3/2 left out.)
tau1_one_dead_time(echo_time, duration_180, system) ==
    echo_time \div 8
    - duration_180 \div 4
    - (system.rf_dead_time + duration_180 \div 2)
    - duration_180 \div 2
tau1_of(echo_time, duration_180, system) ==
    echo_time \div 8
    - duration_180 \div 4
    - (system.rf_dead_time + duration_180 \div 2)
    - (system.rf_dead_time + duration_180 \div 2)

tau2_to_block_start(echo_time, refoc_dur, time_to_midpoint) ==
    echo_time \div 4
    - (refoc_dur - time_to_midpoint)
tau2_of(echo_time, refoc_dur, time_to_midpoint) ==
    echo_time \div 4
    - (refoc_dur - time_to_midpoint)
    - time_to_midpoint

tau3_half_of_180(echo_time, duration_180, system, refoc_dur, time_to_midpoint) ==
    echo_time \div 8
    - (refoc_dur - time_to_midpoint)
    - (system.rf_dead_time + duration_180 \div 2)
tau3_of(echo_time, duration_180, system, refoc_dur, time_to_midpoint) ==
    echo_time \div 8
    - (refoc_dur - time_to_midpoint)
    - (system.rf_dead_time + ((duration_180 \div 2) * 3) \div 2)

\* The end of add_t2prep, from the delay tau3 on.
t2prep_tip_up(s, h, system, time_start, echo_time, duration_180, add_spoiler, spoiler_ramp_time, spoiler_flat_time, refoc_dur, time_to_midpoint) ==
    LET tau3 == tau3_of(echo_time, duration_180, system, refoc_dur, time_to_midpoint)
        s1 == add_block(s, make_delay(tau3))
        rf_tip_up_270 == make_block_pulse(270, system.rf_dead_time,
                                          (duration_180 \div 2) * 3, 0, system,
                                          "preparation")
        rf_tip_up_360 == make_block_pulse(-360, system.rf_dead_time,
                                          duration_180 * 2, 0, system, "preparation")
        s2 == add_block(add_block(s1, rf_tip_up_270), rf_tip_up_360)
        gz_spoil == make_trapezoid(spoiler_amplitude(system), spoiler_flat_time,
                                   spoiler_ramp_time, system)
        s3 == IF add_spoiler THEN add_block(s2, gz_spoil) ELSE s2
    IN  IF tau3 < 0
        THEN Raised(s, h, "Desired echo time")
        ELSE Returned(s3, h, block_duration_since(s3, time_start), None)

\* The middle of add_t2prep: the four composite refocusing blocks and the
\* delays tau2 between them, then the tip-up.
t2prep_refocusing(s, h, ref, time_start, echo_time, duration_180, add_spoiler, spoiler_ramp_time, spoiler_flat_time) ==
    LET c1 == add_composite_refocusing_block(s, h, ref, duration_180, FALSE)
        tau2 == tau2_of(echo_time, c1.block_duration, c1.time_to_midpoint)
        d1 == add_block(c1.seq, make_delay(tau2))
        c2 == add_composite_refocusing_block(d1, c1.heap, ref, duration_180, FALSE)
        d2 == add_block(c2.seq, make_delay(tau2))
        c3 == add_composite_refocusing_block(d2, c2.heap, ref, duration_180, TRUE)
        d3 == add_block(c3.seq, make_delay(tau2))
        c4 == add_composite_refocusing_block(d3, c3.heap, ref, duration_180, TRUE)
    IN  IF c1.raised # "" THEN c1
        ELSE IF tau2 < 0 THEN Raised(c1.seq, c1.heap, "Desired echo time")
        ELSE IF c2.raised # "" THEN c2
        ELSE IF c3.raised # "" THEN c3
        ELSE IF c4.raised # "" THEN c4
        ELSE t2prep_tip_up(c4.seq, c4.heap, c4.heap[ref], time_start, echo_time,
                           duration_180, add_spoiler, spoiler_ramp_time,
                           spoiler_flat_time, c1.block_duration, c1.time_to_midpoint)

\* add_t2prep(seq, system, echo_time, duration_180, add_spoiler,
\*            spoiler_ramp_time, spoiler_flat_time)
add_t2prep(seq_arg, h, system_arg, echo_time, duration_180, add_spoiler, spoiler_ramp_time, spoiler_flat_time) ==
    LET system0 == IF system_arg = NoSystem THEN "sys_defaults" ELSE system_arg
    IN  IF rf_dead_time_is_None(h[system0])
        THEN Raised(seq_arg, h, "rf_dead_time must be provided")
        ELSE
        LET cp == deepcopy(h, system0, "t2prep copy")
            h1 == set_rf_ringdown_time(cp.heap, cp.ref, 0)
            system == h1[cp.ref]
            s0 == IF seq_arg = NoSeq THEN <<>> ELSE seq_arg
            time_start == total_duration(s0)
            rf_90 == make_block_pulse(90, system.rf_dead_time, duration_180 \div 2,
                                      0, system, "preparation")
            s1 == add_block(s0, rf_90)
            tau1 == tau1_of(echo_time, duration_180, system)
            s2 == add_block(s1, make_delay(tau1))
        IN  IF tau1 < 0
            THEN Raised(s1, h1, "Desired echo time")
            ELSE t2prep_refocusing(s2, h1, cp.ref, time_start, echo_time,
                                   duration_180, add_spoiler, spoiler_ramp_time,
                                   spoiler_flat_time)

-----------------------------------------------------------------------------
(* scripts/t1_inv_rec_gre_single_line.py *)

\* system.grad_raster_time: sys_defaults leaves it at the library's 10 us.
grad_raster_time(system) == T(1)

\* np.ceil(x / raster) * raster
\* (floor_to_raster: rounded down instead of up.)
floor_to_raster(x, raster) == (x \div raster) * raster
ceil_to_raster(x, raster) == (-((-x) \div raster)) * raster

\* pp.make_trapezoid(channel, area, duration, system): the library derives
\* the ramp time; the amplitude is held in units in which it equals the area.
make_trapezoid_of_duration(channel, area, duration, rise_time) ==
    Event("trap", channel, 0, 0, 0, 0, 0, rise_time, duration - 2 * rise_time, rise_time, area)

\* pp.make_trapezoid(channel, flat_area, flat_time, system) and
\* pp.make_trapezoid(channel, area, system): ramp (and flat) time derived by
\* the library.
make_trapezoid_of_area(channel, area, flat_time, rise_time) ==
    Event("trap", channel, 0, 0, 0, 0, 0, rise_time, flat_time, rise_time, area)

\* pp.make_sinc_pulse(flip_angle, duration, delay, system, return_gz=True):
\* the pulse waits for the dead time and for the ramp of the slice-selection
\* gradient gz, whose flat top lasts as long as the pulse; gzr rewinds gz.
make_sinc_pulse(flip_angle, duration, delay, system, rise_time, gzr_rise_time, gzr_flat_time) ==
    LET gz_delay == IF delay > rise_time
                    THEN ceil_to_raster(delay - rise_time, grad_raster_time(system))
                    ELSE 0
        rf_delay == Max(Max(delay, system.rf_dead_time), rise_time + gz_delay)
    IN  [rf |-> Event("rf", "excitation", flip_angle, 0, rf_delay, duration,
                      system.rf_ringdown_time, 0, 0, 0, 0),
         gz |-> Event("trap", "z", 0, 0, gz_delay, 0, 0, rise_time, duration,
                      rise_time, 1),
         gzr |-> make_trapezoid_of_area("z", -1, gzr_flat_time, gzr_rise_time)]

\* pp.make_adc(num_samples, duration, delay, system)
make_adc(num_samples, duration, delay, system) ==
    [type |-> "adc", num_samples |-> num_samples, dwell |-> duration \div num_samples,
     delay |-> delay, dead_time |-> system.adc_dead_time]

\* pp.make_label(type='SET', label, value)
make_label(label, value) == [type |-> "label", label |-> label, value |-> value]

\* seq.add_block(event, event, ...): one block holding several events
Block(events) == [type |-> "block", events |-> events]

\* Ramp and flat times the library derives from gradient areas and hardware
\* limits: the ramp of the slice-selection gradient (shorter or longer than
\* the explored ringdown times), of the readout gradient and of the
\* pre-/re-winders, and ramp and flat time of the slice rewinder and of the
\* spoiler.
GradientTimings ==
    {[gz_rise |-> T(2), gzr_rise |-> T(2), gzr_flat |-> T(20), gx_rise |-> T(2),
      pre_rise |-> T(5), spoil_rise |-> T(10), spoil_flat |-> T(60)],
     [gz_rise |-> T(8), gzr_rise |-> T(8), gzr_flat |-> T(30), gx_rise |-> T(16),
      pre_rise |-> T(10), spoil_rise |-> T(15), spoil_flat |-> T(90)]}

\* k0_center_id: the index at which (arange(n_readout) - n_readout / 2) is 0;
\* None if there is none (np.where(...)[0][0] then raises IndexError).
k0_center_id_of(n_readout) == IF n_readout % 2 = 0 THEN n_readout \div 2 ELSE None

\* min_te of main
min_te_of(rf, gzr, gx_pre, gx, adc, k0_center_id) ==
    rf.shape_dur \div 2 + rf.ringdown_time + calc_duration(gzr)
    + calc_duration(gx_pre) + gx.delay + gx.rise_time + k0_center_id * adc.dwell

\* te is None / te > min_te / otherwise: te_delay, or None where main raises
te_delay_of(te, min_te, system) ==
    IF te = None THEN 0
    ELSE IF te > min_te THEN ceil_to_raster(te - min_te, grad_raster_time(system))
    ELSE None

\* gy_pre.amplitude = -gy_pre.amplitude
\* (amplitude_kept: the sign not changed.)
amplitude_kept(gy_pre) == gy_pre
negate_amplitude(gy_pre) == [gy_pre EXCEPT !.amplitude = -gy_pre.amplitude]

\* if tr_delay < 0
\* (tr_check_skipped: the test left out.)
tr_check_skipped(tr_delay) == FALSE
tr_too_short(tr_delay) == tr_delay < 0

\* The events main creates before its loops (lines 60-104), for the record
\* system, with the ramp times g the library derives.
main_events(system, n_readout, g) ==
    LET adc_dwell == grad_raster_time(system)
        gx_pre_duration == T(100)
        gx_flat_time == n_readout * adc_dwell
        rf_duration == T(128)
        sinc == make_sinc_pulse(12, rf_duration, system.rf_dead_time, system,
                                g.gz_rise, g.gzr_rise, g.gzr_flat)
        gx == make_trapezoid_of_area("x", 2 * n_readout, gx_flat_time, g.gx_rise)
    IN  [rf |-> sinc.rf, gz |-> sinc.gz, gzr |-> sinc.gzr, gx |-> gx,
         adc |-> make_adc(n_readout, gx.flat_time, gx.rise_time, system),
         gx_pre |-> make_trapezoid_of_duration("x", -n_readout - 1, gx_pre_duration, g.pre_rise),
         gx_post |-> make_trapezoid_of_duration("x", -n_readout + 1, gx_pre_duration, g.pre_rise),
         gz_spoil |-> make_trapezoid_of_area("z", 4, g.spoil_flat, g.spoil_rise),
         gx_pre_duration |-> gx_pre_duration, pre_rise |-> g.pre_rise]

\* phase_areas[pe_idx], in units of delta_k / 2
phase_area(pe_idx, n_phase_encoding) == 2 * pe_idx - n_phase_encoding

\* The body of the inner loop of main (lines 131-178): one repetition,
\* appended to the sequence s.  ev holds the events of main_events.
repetition(s, h, system, ev, ti_idx, ti, pe_idx, n_phase_encoding, te_delay, tr) ==
    LET contrast_label == make_label("ECO", ti_idx)
        pe_label == make_label("LIN", pe_idx)
        start_time_tr_block == total_duration(s)
        prep == add_t1prep(s, h, system, ti, T(1024), TRUE, T(60), T(840))
        s1 == add_block(prep.seq, Block(<<ev.rf, ev.gz>>))
        s2 == add_block(s1, ev.gzr)
        s3 == add_block(s2, make_delay(te_delay))
        gy_pre == make_trapezoid_of_duration("y", phase_area(pe_idx, n_phase_encoding),
                                             ev.gx_pre_duration, ev.pre_rise)
        s4 == add_block(s3, Block(<<ev.gx_pre, gy_pre, pe_label, contrast_label>>))
        s5 == add_block(s4, Block(<<ev.gx, ev.adc>>))
        s6 == add_block(s5, Block(<<ev.gx_post, negate_amplitude(gy_pre), ev.gz_spoil>>))
        duration_tr_block == total_duration(s6) - start_time_tr_block
        tr_delay == ceil_to_raster(tr - duration_tr_block, grad_raster_time(h[system]))
    IN  IF prep.raised # "" THEN Raised(prep.seq, prep.heap, prep.raised)
        ELSE IF tr_too_short(tr_delay) THEN Raised(s6, prep.heap, "Desired TR too short")
        ELSE Returned(add_block(s6, make_delay(tr_delay)), prep.heap, None, None)

\* for pe_idx in np.arange(n_phase_encoding), from pe_idx on; r is the
\* outcome of the repetition pe_idx, and the loop's outcome the one element
\* of the set written.
RECURSIVE phase_encoding_loop(_, _, _, _, _, _, _, _, _, _)
phase_encoding_loop(s, h, system, ev, ti_idx, ti, pe_idx, n_phase_encoding, te_delay, tr) ==
    IF pe_idx >= n_phase_encoding THEN Returned(s, h, None, None)
    ELSE CHOOSE outcome \in
           {IF r.raised # "" THEN r
            ELSE phase_encoding_loop(r.seq, r.heap, system, ev, ti_idx, ti, pe_idx + 1, n_phase_encoding, te_delay, tr) :
              r \in {repetition(s, h, system, ev, ti_idx, ti, pe_idx, n_phase_encoding, te_delay, tr)}} : TRUE

\* for ti_idx, ti in enumerate(inversion_times), from ti_idx on (0-based);
\* r is the outcome of the inner loop for ti_idx.
RECURSIVE inversion_time_loop(_, _, _, _, _, _, _, _, _)
inversion_time_loop(s, h, system, ev, ti_idx, inversion_times, n_phase_encoding, te_delay, tr) ==
    IF ti_idx >= Len(inversion_times) THEN Returned(s, h, None, None)
    ELSE CHOOSE outcome \in
           {IF r.raised # "" THEN r
            ELSE inversion_time_loop(r.seq, r.heap, system, ev, ti_idx + 1, inversion_times, n_phase_encoding, te_delay, tr) :
              r \in {phase_encoding_loop(s, h, system, ev, ti_idx, inversion_times[ti_idx + 1], 0, n_phase_encoding, te_delay, tr)}} : TRUE

\* main(system, inversion_times, te, tr, n_readout, n_phase_encoding) up to
\* its last add_block; g is the ramp times the library derives.  The result
\* carries the sequence object main built, also where main raises.
main(h, system_arg, inversion_times, te, tr, n_readout, n_phase_encoding, g) ==
    LET system == IF system_arg = NoSystem THEN "sys_defaults" ELSE system_arg
        s0 == <<>>
        ev == main_events(h[system], n_readout, g)
        k0_center_id == k0_center_id_of(n_readout)
        min_te == min_te_of(ev.rf, ev.gzr, ev.gx_pre, ev.gx, ev.adc, k0_center_id)
        te_delay == te_delay_of(te, min_te, h[system])
    IN  IF k0_center_id = None
        THEN [res |-> Raised(s0, h, "index 0 is out of bounds"), min_te |-> None, te_delay |-> None]
        ELSE IF te_delay = None
        THEN [res |-> Raised(s0, h, "TE must be larger than"), min_te |-> min_te, te_delay |-> None]
        ELSE [res |-> inversion_time_loop(s0, h, system, ev, 0, inversion_times, n_phase_encoding, te_delay, tr),
              min_te |-> min_te, te_delay |-> te_delay]

-----------------------------------------------------------------------------
(* The caller: it holds one hardware-limits record and at most one         *)
(* sequence object, and calls the builders with them.                      *)

\* The record of a call: its arguments, the record its system argument
\* stood for and the heap when it was made, and its outcome.  Arguments a
\* builder does not have are 0 or FALSE.
Call(op, system_arg, inversion_time, rf_duration, echo_time, duration_180, negative_amp, add_spoiler, spoiler_ramp_time, spoiler_flat_time, res) ==
    [op |-> op, seq_arg |-> seq, system_arg |-> system_arg,
     system |-> IF system_arg = NoSystem THEN opts["sys_defaults"]
                ELSE opts[system_arg],
     opts |-> opts,
     inversion_time |-> inversion_time, rf_duration |-> rf_duration,
     echo_time |-> echo_time, duration_180 |-> duration_180,
     negative_amp |-> negative_amp, add_spoiler |-> add_spoiler,
     spoiler_ramp_time |-> spoiler_ramp_time,
     spoiler_flat_time |-> spoiler_flat_time,
     raised |-> res.raised, block_duration |-> res.block_duration,
     time_to_midpoint |-> res.time_to_midpoint]

NoCall ==
    [op |-> "none", seq_arg |-> NoSeq, system_arg |-> NoSystem,
     system |-> sys_defaults, opts |-> opts,
     inversion_time |-> 0, rf_duration |-> 0, echo_time |-> 0,
     duration_180 |-> 0, negative_amp |-> FALSE, add_spoiler |-> FALSE,
     spoiler_ramp_time |-> 0, spoiler_flat_time |-> 0,
     raised |-> "", block_duration |-> None, time_to_midpoint |-> None]

\* What the caller holds after a call: a return gives it the returned
\* sequence; an exception leaves it the object it passed in, with the blocks
\* appended to it so far, or nothing if it passed none.  The copies of the
\* hardware limits made during the call are dropped with the call's frame.
Finish(call, res) ==
    /\ seq' = IF res.raised # "" /\ seq = NoSeq THEN NoSeq ELSE res.seq
    /\ opts' = [r \in GlobalRefs |-> res.heap[r]]
    /\ last' = call

Init ==
    /\ seq = NoSeq
    /\ \E c \in CallerSystems : opts = [caller |-> c, sys_defaults |-> sys_defaults]
    /\ last = NoCall

\* The caller drops its sequence, or constructs an empty one.
NewSequence ==
    /\ \E s \in {NoSeq, <<>>} : seq' = s
    /\ last' = NoCall
    /\ UNCHANGED opts

\* The caller keeps its sequence for a further call, and drops the record
\* of the call before.
Continue ==
    /\ last.op # "none"
    /\ seq # NoSeq
    /\ Len(seq) <= MaxPriorBlocks
    /\ last' = NoCall
    /\ UNCHANGED <<seq, opts>>

\* A builder is called after NewSequence or Continue.
MayPass == last.op = "none"

AddT1Prep ==
    /\ MayPass
    /\ \E system_arg \in {NoSystem, "caller"}, inversion_time \in InversionTimes,
          rf_duration \in RfDurations, g \in Spoilers :
          LET system == IF system_arg = NoSystem THEN "sys_defaults" ELSE system_arg
              res == add_t1prep(seq, opts, system_arg, inversion_time,
                                rf_duration, g[1], g[2], g[3])
          IN  \* the pulse library is not modelled for a delay of None
              /\ opts[system].rf_dead_time # None
              /\ Finish(Call("add_t1prep", system_arg, inversion_time, rf_duration,
                             0, 0, FALSE, g[1], g[2], g[3], res), res)

AddCompositeRefocusingBlock ==
    /\ seq # NoSeq
    /\ MayPass
    /\ \E system_arg \in GlobalRefs, duration_180 \in Durations180,
          negative_amp \in BOOLEAN :
          LET res == add_composite_refocusing_block(seq, opts, system_arg,
                                                    duration_180, negative_amp)
          IN  Finish(Call("add_composite_refocusing_block", system_arg, 0, 0, 0,
                          duration_180, negative_amp, FALSE, 0, 0, res), res)

AddT2Prep ==
    /\ MayPass
    /\ \E system_arg \in {NoSystem, "caller"}, echo_time \in EchoTimes,
          duration_180 \in Durations180, g \in Spoilers :
          LET res == add_t2prep(seq, opts, system_arg, echo_time, duration_180,
                                g[1], g[2], g[3])
          IN  Finish(Call("add_t2prep", system_arg, 0, 0, echo_time, duration_180,
                          FALSE, g[1], g[2], g[3], res), res)

Next ==
    \/ NewSequence
    \/ Continue
    \/ AddT1Prep
    \/ AddCompositeRefocusingBlock
    \/ AddT2Prep

Spec == Init /\ [][Next]_vars

\* The record of a run of main: its arguments, the ramp times the library
\* derived, min_te and te_delay as main computed them (None if it did not),
\* the sequence object main built (also where main raised) and its outcome.
MainCall(system_arg, inversion_times, te, tr, n_readout, n_phase_encoding, g, m) ==
    [op |-> "main", seq_arg |-> NoSeq, system_arg |-> system_arg,
     system |-> IF system_arg = NoSystem THEN opts["sys_defaults"]
                ELSE opts[system_arg],
     opts |-> opts, inversion_times |-> inversion_times, te |-> te, tr |-> tr,
     n_readout |-> n_readout, n_phase_encoding |-> n_phase_encoding,
     gradient_timings |-> g, min_te |-> m.min_te, te_delay |-> m.te_delay,
     built |-> m.res.seq, raised |-> m.res.raised]

\* The script is run: main builds a sequence of its own and returns it.
Main ==
    /\ MayPass
    /\ seq = NoSeq
    /\ \E system_arg \in {NoSystem, "caller"}, inversion_times \in InversionTimeLists,
          te \in MainEchoTimes, tr \in RepetitionTimes, n_readout \in ReadoutSamples,
          n_phase_encoding \in PhaseEncodingSteps, g \in GradientTimings :
          LET system == IF system_arg = NoSystem THEN "sys_defaults" ELSE system_arg
          IN  \* the pulse library is not modelled for a delay of None
              /\ opts[system].rf_dead_time # None
              /\ \E m \in {main(opts, system_arg, inversion_times, te, tr, n_readout,
                                n_phase_encoding, g)} :
                    /\ seq' = IF m.res.raised # "" THEN seq ELSE m.res.seq
                    /\ opts' = [r \in GlobalRefs |-> m.res.heap[r]]
                    /\ last' = MainCall(system_arg, inversion_times, te, tr,
                                        n_readout, n_phase_encoding, g, m)

NextMain ==
    \/ Next
    \/ Main

SpecMain == Init /\ [][NextMain]_vars

-----------------------------------------------------------------------------
(* Properties. *)

\* The blocks the sequence passed to the last call held before it.
Prior == IF last.seq_arg = NoSeq THEN <<>> ELSE last.seq_arg

\* The last call was to the builder op and returned.
ReturnedFrom(op) == last.op = op /\ last.raised = ""

\* The time at which block i of s starts, and the time of the centre of the
\* RF pulse it holds.
StartOf(s, i) == duration_of_first(s, i - 1)
CentreOf(s, i) == StartOf(s, i) + s[i].delay + s[i].shape_dur \div 2

SpoilerTime(c) ==
    IF c.add_spoiler THEN 2 * c.spoiler_ramp_time + c.spoiler_flat_time ELSE 0

\* C1: after every add_t2prep that returns, the appended blocks place the
\* midpoint of the first 180 degree pulse echo_time/8 after the centre of
\* the 90 degree excitation, consecutive 180 degree midpoints echo_time/4
\* apart and the centre of the 270 degree tip-up echo_time/8 after the last
\* midpoint, so that excitation centre to tip-up centre is exactly
\* echo_time, whatever the dead and ringdown times of the system and with or
\* without spoiler.
T2EchoSpan ==
    ReturnedFrom("add_t2prep") =>
        LET n == Len(Prior)
            exc == n + 1
            mid == [k \in 1..4 |-> n + 4 * k]
            tip == n + 19
        IN  /\ seq[exc].type = "rf" /\ seq[exc].flip_angle = 90
            /\ \A k \in 1..4 : seq[mid[k]].type = "rf" /\ seq[mid[k]].flip_angle = 180
            /\ seq[tip].type = "rf" /\ seq[tip].flip_angle = 270
            /\ 8 * (CentreOf(seq, mid[1]) - CentreOf(seq, exc)) = last.echo_time
            /\ \A k \in 1..3 :
                  4 * (CentreOf(seq, mid[k + 1]) - CentreOf(seq, mid[k])) = last.echo_time
            /\ 8 * (CentreOf(seq, tip) - CentreOf(seq, mid[4])) = last.echo_time
            /\ CentreOf(seq, tip) - CentreOf(seq, exc) = last.echo_time

\* An add_t2prep with spoiler returned, for a system with a ringdown time,
\* appending to a sequence that already held a block.
T2EchoSpanWitness ==
    /\ ReturnedFrom("add_t2prep")
    /\ last.add_spoiler
    /\ last.system.rf_ringdown_time > 0
    /\ Len(Prior) > 0

\* C2: the block_duration a returning add_t2prep returns is rf_dead_time +
\* duration_180/4 + echo_time + duration_180*3/4 + rf_dead_time +
\* 2*duration_180, plus 2*spoiler_ramp_time + spoiler_flat_time exactly when
\* add_spoiler is true; the spoiler is one more block after the tip-up
\* pulses, whose timing it leaves as it is without spoiler.
T2BlockDuration ==
    ReturnedFrom("add_t2prep") =>
        LET n == Len(Prior)
            dead == last.system.rf_dead_time
            unspoiled == dead + last.duration_180 \div 4 + last.echo_time
                         + (last.duration_180 * 3) \div 4 + dead
                         + 2 * last.duration_180
        IN  /\ last.block_duration = unspoiled + SpoilerTime(last)
            /\ Len(seq) = n + (IF last.add_spoiler THEN 21 ELSE 20)
            /\ last.add_spoiler => seq[n + 21].type = "trap"
            /\ \A i \in (n + 1)..(n + 20) : seq[i].type # "trap"
            /\ duration_of_first(seq, n + 20) - duration_of_first(seq, n) = unspoiled
            /\ CentreOf(seq, n + 19) - CentreOf(seq, n + 1) = last.echo_time

\* An add_t2prep without spoiler returned, above the minimal echo time,
\* although a spoiler geometry was given.
T2BlockDurationWitness ==
    /\ ReturnedFrom("add_t2prep")
    /\ ~last.add_spoiler
    /\ last.spoiler_flat_time > 0
    /\ last.echo_time > 14 * last.duration_180 + 16 * last.system.rf_dead_time

\* C3: add_composite_refocusing_block appends exactly three RF blocks and
\* returns their total duration, 2*duration_180 + 3*rf_dead_time, whatever
\* the ringdown time of the system, also on a sequence that holds blocks.
CompositeBlockDuration ==
    ReturnedFrom("add_composite_refocusing_block") =>
        LET n == Len(Prior)
        IN  /\ Len(seq) = n + 3
            /\ \A i \in (n + 1)..(n + 3) : seq[i].type = "rf"
            /\ last.block_duration
                   = 2 * last.duration_180 + 3 * last.system.rf_dead_time
            /\ duration_of_first(seq, n + 3) - duration_of_first(seq, n)
                   = last.block_duration

\* A composite block was appended to a non-empty sequence for a system with
\* a ringdown time.
CompositeBlockDurationWitness ==
    /\ ReturnedFrom("add_composite_refocusing_block")
    /\ last.system.rf_ringdown_time > 0
    /\ Len(Prior) > 0

\* C4: no builder call, returning or raising, with a system of the caller
\* or with system=None, changes the caller's hardware limits or the
\* module-level sys_defaults: both are as they were before the call, and the
\* ringdown time of sys_defaults is never set to zero.
HardwareLimitsUnchanged ==
    /\ opts["sys_defaults"].rf_ringdown_time # 0
    /\ last.op # "none" =>
          /\ opts["caller"] = last.opts["caller"]
          /\ opts["sys_defaults"] = last.opts["sys_defaults"]

\* An add_t2prep with system=None returned: it has set the ringdown time of
\* the limits it worked with to zero, in itself and in four composite blocks.
HardwareLimitsUnchangedWitness ==
    /\ ReturnedFrom("add_t2prep")
    /\ last.system_arg = NoSystem
    /\ last.opts["sys_defaults"].rf_ringdown_time > 0

\* C5: the block_duration a returning add_t1prep returns is rf_dead_time +
\* rf_duration/2 + inversion_time, for any ringdown time, with and without
\* spoiler and for any spoiler geometry: the block ends inversion_time after
\* the centre of the inversion pulse.
T1BlockDuration ==
    ReturnedFrom("add_t1prep") =>
        LET n == Len(Prior)
        IN  /\ last.block_duration
                   = last.system.rf_dead_time + last.rf_duration \div 2
                     + last.inversion_time
            /\ seq[n + 1].type = "rf"
            /\ total_duration(seq) - CentreOf(seq, n + 1) = last.inversion_time

\* An add_t1prep with a spoiler returned for a system with a ringdown time.
T1BlockDurationWitness ==
    /\ ReturnedFrom("add_t1prep")
    /\ last.add_spoiler
    /\ last.spoiler_flat_time > 0
    /\ last.system.rf_ringdown_time > 0

\* C6: add_t1prep raises 'Inversion time too short' exactly when
\* inversion_time - rf_duration/2 - rf_ringdown_time - (2*spoiler_ramp_time +
\* spoiler_flat_time if add_spoiler else 0) is negative, and then the
\* sequence passed in holds the blocks it held before the call.
T1RaisesIffTooShort ==
    last.op = "add_t1prep" =>
        /\ last.raised \in {"", "Inversion time too short"}
        /\ last.raised = "Inversion time too short"
              <=> 2 * last.inversion_time - last.rf_duration
                  - 2 * last.system.rf_ringdown_time - 2 * SpoilerTime(last) < 0
        /\ last.raised # "" => seq = last.seq_arg

\* add_t1prep raised on a sequence that held a block, for a time that only
\* the ringdown time makes too short.
T1RaisesIffTooShortWitness ==
    /\ last.op = "add_t1prep"
    /\ last.raised = "Inversion time too short"
    /\ Len(Prior) > 0
    /\ 2 * last.inversion_time - last.rf_duration - 2 * SpoilerTime(last) >= 0

\* C7: with the rf_dead_time of the system unset, add_t2prep and
\* add_composite_refocusing_block raise 'rf_dead_time must be provided' and
\* the sequence passed in holds exactly the blocks it held before the call.
UnsetDeadTimeRaisesFirst ==
    /\ last.op \in {"add_t2prep", "add_composite_refocusing_block"}
    /\ last.system.rf_dead_time = None
    => /\ last.raised = "rf_dead_time must be provided"
       /\ seq = last.seq_arg

\* add_t2prep was called with unset rf_dead_time on a sequence holding a
\* block.
UnsetDeadTimeRaisesFirstWitness ==
    /\ last.op = "add_t2prep"
    /\ last.system.rf_dead_time = None
    /\ Len(Prior) > 0

\* C8: add_t2prep (rf_dead_time set) raises 'Desired echo time ... too
\* short' exactly when echo_time < 14*duration_180 + 16*rf_dead_time, which
\* is exactly when one of tau1, tau2, tau3 is negative, and returns
\* otherwise; no sequence ever holds a delay block of negative duration.
T2RaisesIffEchoTooShort ==
    /\ seq # NoSeq => \A i \in 1..Len(seq) : seq[i].type = "delay" => seq[i].delay >= 0
    /\ last.op = "add_t2prep" /\ last.system.rf_dead_time # None =>
          LET dead == last.system.rf_dead_time
              refoc_dur == 2 * last.duration_180 + 3 * dead
              time_to_midpoint == 2 * dead + last.duration_180
              too_short == last.echo_time < 14 * last.duration_180 + 16 * dead
              negative ==
                  \/ tau1_of(last.echo_time, last.duration_180, last.system) < 0
                  \/ tau2_of(last.echo_time, refoc_dur, time_to_midpoint) < 0
                  \/ tau3_of(last.echo_time, last.duration_180, last.system,
                             refoc_dur, time_to_midpoint) < 0
          IN  /\ last.raised \in {"", "Desired echo time"}
              /\ last.raised = "Desired echo time" <=> too_short
              /\ negative <=> too_short

\* add_t2prep returned for the smallest feasible echo time: tau3 is 0.
T2RaisesIffEchoTooShortWitness ==
    /\ ReturnedFrom("add_t2prep")
    /\ last.echo_time = 14 * last.duration_180 + 16 * last.system.rf_dead_time
    /\ seq[Len(Prior) + 18].type = "delay"
    /\ seq[Len(Prior) + 18].delay = 0

\* The documented default hardware limits: max_grad 30 mT/m, max_slew
\* 120 T/m/s, rf_ringdown_time 30 us, rf_dead_time 100 us, adc_dead_time 10 us.
DocumentedDefaults == Opts(30, 120, T(3), T(10), T(1))

\* C9: a call of add_t1prep or add_t2prep with system=None has the outcome
\* of the same call with a record of the documented defaults as system: the
\* same error or block_duration, and the same blocks in the sequence.
DefaultsWhenSystemNone ==
    last.system_arg = NoSystem /\ last.op \in {"add_t1prep", "add_t2prep"} =>
        LET h == [caller |-> DocumentedDefaults,
                  sys_defaults |-> last.opts["sys_defaults"]]
            explicit ==
                IF last.op = "add_t1prep"
                THEN add_t1prep(last.seq_arg, h, "caller", last.inversion_time,
                                last.rf_duration, last.add_spoiler,
                                last.spoiler_ramp_time, last.spoiler_flat_time)
                ELSE add_t2prep(last.seq_arg, h, "caller", last.echo_time,
                                last.duration_180, last.add_spoiler,
                                last.spoiler_ramp_time, last.spoiler_flat_time)
        IN  /\ explicit.raised = last.raised
            /\ explicit.block_duration = last.block_duration
            /\ last.raised = "" => explicit.seq = seq

\* add_t1prep with system=None returned, appending pulse, spoiler and delay
\* to a sequence an earlier call had appended to.
DefaultsWhenSystemNoneWitness ==
    /\ ReturnedFrom("add_t1prep")
    /\ last.system_arg = NoSystem
    /\ Len(Prior) > 0
    /\ Len(seq) = Len(Prior) + 3

\* C10: a builder only appends: the blocks the sequence held before the call
\* are its first blocks after it, as they were, and the block_duration
\* returned is the total duration of the sequence after the call minus its
\* total duration before, for an empty and a non-empty sequence.
BuildersOnlyAppend ==
    last.op # "none" /\ seq # NoSeq =>
        /\ Len(seq) >= Len(Prior)
        /\ SubSeq(seq, 1, Len(Prior)) = Prior
        /\ last.raised = "" =>
              last.block_duration = total_duration(seq) - total_duration(Prior)

\* add_t2prep returned after appending to a sequence that held a block.
BuildersOnlyAppendWitness ==
    /\ ReturnedFrom("add_t2prep")
    /\ Len(Prior) > 0
    /\ Len(seq) > Len(Prior)
    /\ total_duration(Prior) > 0

\* C13: an add_t1prep that returns has appended, in this order, the
\* inversion RF block, the spoiler block exactly if add_spoiler is true, and
\* a delay block of exactly tau exactly if tau > 0; for tau = 0 no delay
\* block: 1 + (1 if add_spoiler) + (1 if tau > 0) blocks.
T1AppendedBlocks ==
    ReturnedFrom("add_t1prep") =>
        LET n == Len(Prior)
            k == IF last.add_spoiler THEN 1 ELSE 0
            twice_tau == 2 * last.inversion_time - last.rf_duration
                         - 2 * last.system.rf_ringdown_time - 2 * SpoilerTime(last)
        IN  /\ Len(seq) = n + 1 + k + (IF twice_tau > 0 THEN 1 ELSE 0)
            /\ seq[n + 1].type = "rf" /\ seq[n + 1].use = "inversion"
            /\ seq[n + 1].shape_dur = last.rf_duration
            /\ last.add_spoiler =>
                  /\ seq[n + 2].type = "trap"
                  /\ seq[n + 2].rise_time = last.spoiler_ramp_time
                  /\ seq[n + 2].flat_time = last.spoiler_flat_time
            /\ ~last.add_spoiler =>
                  \A i \in (n + 1)..Len(seq) : seq[i].type # "trap"
            /\ twice_tau > 0 =>
                  /\ seq[n + 2 + k].type = "delay"
                  /\ 2 * seq[n + 2 + k].delay = twice_tau
            /\ twice_tau = 0 =>
                  \A i \in (n + 1)..Len(seq) : seq[i].type # "delay"

\* add_t1prep returned with a spoiler and tau = 0: two blocks appended.
T1AppendedBlocksWitness ==
    /\ ReturnedFrom("add_t1prep")
    /\ last.add_spoiler
    /\ 2 * last.inversion_time - last.rf_duration
       - 2 * last.system.rf_ringdown_time - 2 * SpoilerTime(last) = 0
    /\ Len(seq) = Len(Prior) + 2

\* C16: when add_t2prep raises 'Desired echo time ... too short' the blocks
\* it has appended stay in the sequence passed in: the excitation block alone
\* if tau1 < 0, and otherwise 17 blocks (excitation, tau1 delay, four
\* composite blocks of three RF blocks, three tau2 delays), the tau3 check
\* failing; tau2 is not negative when tau1 is not, and tau3 = tau1 -
\* duration_180/2.
T2NoRollback ==
    /\ last.op = "add_t2prep"
    /\ last.raised = "Desired echo time"
    /\ seq # NoSeq
    => LET n == Len(Prior)
           dead == last.system.rf_dead_time
           tau1x8 == last.echo_time - 10 * last.duration_180 - 16 * dead
           tau2x4 == last.echo_time - 8 * last.duration_180 - 12 * dead
           tau3x8 == tau1x8 - 4 * last.duration_180
           rf_blocks == {n + 1} \cup {n + 4 * c + j : c \in 0..3, j \in 3..5}
       IN  /\ SubSeq(seq, 1, n) = Prior
           /\ tau1x8 < 0 =>
                 /\ Len(seq) = n + 1
                 /\ seq[n + 1].type = "rf" /\ seq[n + 1].flip_angle = 90
           /\ tau1x8 >= 0 =>
                 /\ Len(seq) = n + 17
                 /\ tau2x4 >= 0 /\ tau3x8 < 0
                 /\ \A i \in (n + 1)..(n + 17) :
                       seq[i].type = IF i \in rf_blocks THEN "rf" ELSE "delay"
                 /\ 8 * seq[n + 2].delay = tau1x8
                 /\ \A i \in {n + 6, n + 10, n + 14} : 4 * seq[i].delay = tau2x4

\* add_t2prep raised at the tau3 check, on a sequence that held a block.
T2NoRollbackWitness ==
    /\ last.op = "add_t2prep"
    /\ last.raised = "Desired echo time"
    /\ seq # NoSeq
    /\ Len(Prior) > 0
    /\ Len(seq) = Len(Prior) + 17

(* Runs of main. *)

\* The last step was a run of main; the sequence object it built.
MainRan == last.op = "main"
Built == last.built

\* The repetitions main is to build, in order: <<ti_idx, pe_idx>>, the
\* inversion-time index in the outer position.
NumberOfRepetitions == Len(last.inversion_times) * last.n_phase_encoding
TiIdx(k) == (k - 1) \div last.n_phase_encoding
PeIdx(k) == (k - 1) % last.n_phase_encoding
TiOf(k) == last.inversion_times[TiIdx(k) + 1]

\* The inversion delay of repetition k for the pulse and spoiler main asks
\* for (10.24 ms, 0.6 ms, 8.4 ms), and the number of T1-prep blocks.
MainTau(k) == TiOf(k) - T(512) - last.system.rf_ringdown_time - T(960)
PrepLen(k) == IF MainTau(k) > 0 THEN 3 ELSE 2
RepLen(k) == PrepLen(k) + 7

\* The number of blocks of the repetitions before repetition k.
RECURSIVE BlocksBefore(_)
BlocksBefore(k) == IF k = 1 THEN 0 ELSE BlocksBefore(k - 1) + RepLen(k - 1)

\* Repetition k is in the sequence up to its rewinder/spoiler block; up to
\* its TR delay block.
Present(k) == Len(Built) >= BlocksBefore(k) + RepLen(k) - 1
Complete(k) == Len(Built) >= BlocksBefore(k) + RepLen(k)

\* The time elapsed in repetition k, T1 prep through rewinder/spoiler block.
Elapsed(k) ==
    duration_of_first(Built, BlocksBefore(k) + RepLen(k) - 1)
    - duration_of_first(Built, BlocksBefore(k))

\* The echo time of repetition k as the sequence plays it: from the centre
\* of the excitation pulse to the k-space centre sample of the readout.
AchievedEchoTime(k) ==
    LET e == BlocksBefore(k) + PrepLen(k) + 1
        rf == Built[e].events[1]
        adc == Built[e + 4].events[2]
    IN  (StartOf(Built, e + 4) + adc.delay + (last.n_readout \div 2) * adc.dwell)
        - (StartOf(Built, e) + rf.delay + rf.shape_dur \div 2)

\* C12: with te = None the echo-time delay is 0; with te > min_te it is
\* te - min_te rounded up to the raster, and the echo time achieved is at
\* least te and less than te + one raster; with te <= min_te main raises
\* 'TE must be larger than' with no block appended.
EchoTimeHonoured ==
    MainRan /\ last.min_te # None =>
        LET raster == T(1)
        IN  /\ last.te = None => last.te_delay = 0
            /\ last.te # None /\ last.te > last.min_te =>
                 /\ last.te_delay # None
                 /\ last.te_delay % raster = 0
                 /\ last.te_delay >= last.te - last.min_te
                 /\ last.te_delay < last.te - last.min_te + raster
                 /\ Present(1) =>
                      /\ AchievedEchoTime(1) >= last.te
                      /\ AchievedEchoTime(1) < last.te + raster
            /\ last.te # None /\ last.te <= last.min_te =>
                 /\ last.raised = "TE must be larger than"
                 /\ Built = <<>>

DelaysAfter(s, n) == {i \in (n + 1)..Len(s) : s[i].type = "delay"}

\* C14 as stated: in every sequence add_t2prep or main produces, every
\* delay block has strictly positive duration.
NoZeroLengthDelay ==
    /\ ReturnedFrom("add_t2prep") =>
         \A i \in DelaysAfter(seq, Len(Prior)) : seq[i].delay > 0
    /\ MainRan /\ last.raised = "" =>
         \A i \in DelaysAfter(Built, 0) : Built[i].delay > 0

\* C14, amended: add_t2prep and main append their delay blocks whatever the
\* duration.  A returning add_t2prep has appended five delay blocks, of
\* tau1, three times tau2 and tau3; every repetition of a returning main
\* holds its echo-time delay block and its TR delay block; each of these
\* blocks has a duration of 0 or more, and of exactly 0 when tau3, the
\* echo-time delay or the TR delay is 0.
DelayBlocksNeverElided ==
    /\ ReturnedFrom("add_t2prep") =>
         LET n == Len(Prior)
             dead == last.system.rf_dead_time
             tau1x8 == last.echo_time - 10 * last.duration_180 - 16 * dead
             tau2x4 == last.echo_time - 8 * last.duration_180 - 12 * dead
             tau3x8 == last.echo_time - 14 * last.duration_180 - 16 * dead
         IN  /\ DelaysAfter(seq, n) = {n + 2, n + 6, n + 10, n + 14, n + 18}
             /\ 8 * seq[n + 2].delay = tau1x8
             /\ \A i \in {n + 6, n + 10, n + 14} : 4 * seq[i].delay = tau2x4
             /\ 8 * seq[n + 18].delay = tau3x8
             /\ \A i \in DelaysAfter(seq, n) : seq[i].delay >= 0
    /\ MainRan /\ last.raised = "" =>
         /\ \A k \in 1..NumberOfRepetitions :
              LET b == BlocksBefore(k)
              IN  /\ Complete(k)
                  /\ Built[b + PrepLen(k) + 3].type = "delay"
                  /\ Built[b + PrepLen(k) + 3].delay = last.te_delay
                  /\ Built[b + RepLen(k)].type = "delay"
                  /\ Built[b + RepLen(k)].delay
                     = (-((Elapsed(k) - last.tr) \div T(1))) * T(1)
         /\ \A i \in DelaysAfter(Built, 0) : Built[i].delay >= 0

\* main returned a sequence whose echo-time delay block and whose last TR
\* delay block both have duration 0.
DelayBlocksNeverElidedWitness ==
    /\ MainRan /\ last.raised = ""
    /\ last.te_delay = 0
    /\ Built[PrepLen(1) + 3].type = "delay" /\ Built[PrepLen(1) + 3].delay = 0
    /\ Built[Len(Built)].type = "delay" /\ Built[Len(Built)].delay = 0

\* The event of block b on the gradient channel c, and the value of its
\* label l.
OnChannel(b, c) ==
    b.events[CHOOSE i \in 1..Len(b.events) : b.events[i].type = "trap" /\ b.events[i].use = c]
LabelOf(b, l) ==
    b.events[CHOOSE i \in 1..Len(b.events) : b.events[i].type = "label" /\ b.events[i].label = l].value
Types(b) == [i \in 1..Len(b.events) |-> b.events[i].type]

\* C15: a main that returns has built len(inversion_times) *
\* n_phase_encoding repetitions, the inversion-time index outer and the
\* phase-encoding index inner, both ascending; each repetition is, in order,
\* the T1-prep blocks for its inversion time, excitation, slice rewinder,
\* echo-time delay, pre-winder, readout, rewinder/spoiler and TR delay; its
\* pre-winder carries LIN = phase-encoding index and ECO = inversion-time
\* index; the rewinder's phase-encoding amplitude is minus the pre-winder's.
RepetitionsInOrder ==
    MainRan /\ last.raised = "" =>
        /\ seq = Built
        /\ Len(Built) = BlocksBefore(NumberOfRepetitions + 1)
        /\ \A k \in 1..NumberOfRepetitions :
             LET b == BlocksBefore(k)
                 p == b + PrepLen(k)
             IN  /\ Built[b + 1].type = "rf" /\ Built[b + 1].use = "inversion"
                 /\ Built[b + 2].type = "trap"
                 /\ PrepLen(k) = 3 =>
                      Built[b + 3].type = "delay" /\ Built[b + 3].delay = MainTau(k)
                 /\ PrepLen(k) = 2 => MainTau(k) = 0
                 /\ Types(Built[p + 1]) = <<"rf", "trap">>
                 /\ Built[p + 1].events[1].use = "excitation"
                 /\ Built[p + 2].type = "trap" /\ Built[p + 2].use = "z"
                 /\ Built[p + 3].type = "delay" /\ Built[p + 3].delay = last.te_delay
                 /\ Types(Built[p + 4]) = <<"trap", "trap", "label", "label">>
                 /\ LabelOf(Built[p + 4], "LIN") = PeIdx(k)
                 /\ LabelOf(Built[p + 4], "ECO") = TiIdx(k)
                 /\ Types(Built[p + 5]) = <<"trap", "adc">>
                 /\ Types(Built[p + 6]) = <<"trap", "trap", "trap">>
                 /\ OnChannel(Built[p + 4], "y").amplitude
                    = 2 * PeIdx(k) - last.n_phase_encoding
                 /\ OnChannel(Built[p + 6], "y").amplitude
                    = - OnChannel(Built[p + 4], "y").amplitude
                 /\ Built[p + 7].type = "delay"

\* main returned four repetitions (two inversion times, one of them leaving
\* no inversion delay, two phase-encoding steps); the first is a
\* phase-encoding step of non-zero amplitude.
RepetitionsInOrderWitness ==
    /\ MainRan /\ last.raised = ""
    /\ Len(last.inversion_times) = 2 /\ last.n_phase_encoding = 2
    /\ PrepLen(1) = 2 /\ PrepLen(3) = 3
    /\ Len(Built) = 38
    /\ OnChannel(Built[6], "y").amplitude = -2

====
